---- MODULE Spec2Model ----
(***************************************************************************)
(* Model of src/src/components/Maps/GoogleMap.tsx: the GoogleMap React     *)
(* component that samples the browser position, emits location_changed /  *)
(* status_changed events on serverSocket and applies delivery_updated     *)
(* events to the delivery context.                                        *)
(*                                                                         *)
(* A render of the component closes over the values currentPosition and   *)
(* deliveryContext have in that render.  Every callback created in a      *)
(* render (the interval callback, the geolocation callbacks, the socket   *)
(* listener) keeps reading those captured values, so the model stores the *)
(* captured values with each callback.                                    *)
(***************************************************************************)
EXTENDS Integers, Sequences, FiniteSets, TLC

\* Bounds of the model.
MaxInflight == 2        \* geolocation requests awaiting their callback
MaxCoordinate == 3      \* lat and lng of the change detector's inputs

\* Position | null (line 12-15, 25).  lat/lng of null read as undefined.
null == [null |-> TRUE]
undefined == 0
Positions == {[lat |-> 1, lng |-> 1], [lat |-> 1, lng |-> 2]}
Locations == Positions \cup {null}

Statuses == {"open", "picked-up", "in-transit", "delivered", "failed"}
TrackedId == "D1"
OtherId == "D2"

\* Delivery snapshots (src/types/delivery, used at line 40, 46, 72, 106).
Deliveries == [_id : {TrackedId}, location : Locations, status : Statuses]

\* delivery_updated payloads the remote may send: any snapshot of the tracked
\* delivery, and snapshots of a delivery this session does not track.
ForeignSnapshots ==
    {[_id |-> OtherId, location |-> [lat |-> 1, lng |-> 2], status |-> "failed"],
     [_id |-> OtherId, location |-> null, status |-> "in-transit"]}
Snapshots == Deliveries \cup ForeignSnapshots

VARIABLES
    mounted,            \* the component is mounted (tracking session active)
    currentPosition,    \* useState<Position | null>, line 25
    delivery,           \* deliveryContext.delivery of the latest render
    connected,          \* serverSocket is connected, line 32/34
    listeners,          \* handlers registered for delivery_updated, line 51/54
    emitted,            \* payloads the last step passed to serverSocket.emit
    timers,             \* intervals armed by window.setInterval, line 109
    fetchCurrentPositionIntervalId, \* the ref of line 24
    intervalCleanup,    \* last run of the interval effect returned a cleanup
    inflight,           \* getCurrentPosition requests awaiting their callback
    received,           \* payload handed to the callback run by the last step
    lastSample,         \* history: the samples handled since the last
                        \* delivery_updated event
    overtaken,          \* history: the sample of the latest-issued request
                        \* handled so far and how many requests issued
                        \* before it are still in flight
    input1,             \* arguments and result of a call of
    input2,             \* areLocationDifferent on its own (line 58-62)
    different

vars == <<mounted, currentPosition, delivery, connected, listeners, emitted,
          timers, fetchCurrentPositionIntervalId, intervalCleanup, inflight,
          received, lastSample, overtaken, input1, input2, different>>

\* The variables of the change detector called on its own; the component's
\* actions leave them alone.
detector == <<input1, input2, different>>

\* The values a render closes over: handleBrowserFetchCurrentLocation and the
\* callbacks built from it read these, not the latest state.  Of the captured
\* deliveryContext the handler reads delivery.location and delivery._id only
\* (line 72, 73, 77, 83).
Closure(cp, d) ==
    [currentPosition |-> cp, location |-> d.location, _id |-> d._id]

\* Variant of areLocationDifferent joining the two tests with "and".
areLocationDifferentBoth(location1, location2) ==
    (IF location1 = null THEN 0 ELSE location1.lat)
        # (IF location2 = null THEN 0 ELSE location2.lat)
    /\ (IF location1 = null THEN 0 ELSE location1.lng)
        # (IF location2 = null THEN 0 ELSE location2.lng)

\* line 58-62
Lat(l) == IF l = null THEN undefined ELSE l.lat
Lng(l) == IF l = null THEN undefined ELSE l.lng
areLocationDifferent(location1, location2) ==
    Lat(location1) # Lat(location2) \/ Lng(location1) # Lng(location2)

\* line 67: the handler calls setCurrentPosition(location)
SetsCurrentPosition(c, location) ==
    areLocationDifferent(location, c.currentPosition)

\* Variant of EmitsLocationChanged without the guard on the stored location.
EmitsLocationChangedUnguarded(c, location) ==
    areLocationDifferent(c.location, location)

\* line 71-74: the handler calls serverSocket.emit(location_changed)
EmitsLocationChanged(c, location) ==
    /\ c.location # null
    /\ areLocationDifferent(c.location, location)

\* line 81-85
LocationChangedEvent(c, location) ==
    [event |-> "location_changed", delivery_id |-> c._id,
     location |-> location]

\* line 132-136, 140-144, 148-152, 156-160
StatusChangedEvent(d, status) ==
    [event |-> "status_changed", delivery_id |-> d._id, status |-> status]

\* Variants of IdMatches: without the id test; with the id test negated.
IdMatchesAny(value, d) == TRUE
IdMatchesNegated(value, d) == value._id # d._id

\* line 46
IdMatches(value, d) == value._id = d._id

\* deliveryContext.updateDelivery(value): the store replaces its delivery.
UpdateDelivery(d, value) == value

\* Variant of IntervalWanted without the test for failed.
IntervalWantedUnlessDelivered(d) == d.status # "delivered"

\* line 105-108
IntervalWanted(d) == d.status # "delivered" /\ d.status # "failed"

\* window.setInterval returns a non-zero id that no armed interval uses.
FreshTimerId(ts) ==
    CHOOSE n \in 1..(Cardinality(ts) + 1) :
        /\ \A t \in ts : t.id # n
        /\ \A m \in 1..(n - 1) : \E t \in ts : t.id = m

\* Variant of ClearedTimers whose cleanup clears nothing.
ClearedTimersNothing(ts, ref, cleanup) == ts

\* line 123-127: the cleanup returned by the interval effect
ClearedTimers(ts, ref, cleanup) ==
    IF cleanup /\ ref # 0 THEN {t \in ts : t.id # ref} ELSE ts

\* Variant of RunIntervalEffect that does not re-run while an interval is
\* armed (the dependency list lacks currentPosition and deliveryContext).
RunIntervalEffectKeepsArmed(cp, d) ==
    IF timers # {}
    THEN UNCHANGED <<timers, fetchCurrentPositionIntervalId, intervalCleanup>>
    ELSE IF d.status # "delivered" /\ d.status # "failed"
         THEN /\ timers' = {[id |-> 1,
                             closure |-> [currentPosition |-> cp,
                                          location |-> d.location,
                                          _id |-> d._id]]}
              /\ fetchCurrentPositionIntervalId' = 1
              /\ intervalCleanup' = TRUE
         ELSE UNCHANGED <<timers, fetchCurrentPositionIntervalId,
                          intervalCleanup>>

\* line 104-129: the interval effect re-runs (cleanup of the previous run,
\* then the effect body) with the values of the new render.
RunIntervalEffect(cp, d) ==
    LET cleared == ClearedTimers(timers, fetchCurrentPositionIntervalId,
                                 intervalCleanup)
        id == FreshTimerId(cleared)
    IN  IF IntervalWanted(d)
        THEN /\ timers' = cleared \cup {[id |-> id, closure |-> Closure(cp, d)]}
             /\ fetchCurrentPositionIntervalId' = id
             /\ intervalCleanup' = TRUE
        ELSE /\ timers' = cleared
             /\ fetchCurrentPositionIntervalId' = fetchCurrentPositionIntervalId
             /\ intervalCleanup' = FALSE

\* line 39-56: the listener effect re-runs: off(old handler), on(new handler).
\* off removes one registration of the handler passed in.
RECURSIVE RemoveFirst(_, _)
RemoveFirst(s, h) ==
    IF s = <<>> THEN <<>>
    ELSE IF Head(s) = h THEN Tail(s)
    ELSE <<Head(s)>> \o RemoveFirst(Tail(s), h)

\* of the captured deliveryContext the handler reads delivery._id (line 46)
Handler(d) == [_id |-> d._id]

\* Variant of ReRegistered that adds the new handler without removing the old.
ReRegisteredKeepsOld(ls, old, new) == Append(ls, [_id |-> new._id])

ReRegistered(ls, old, new) == Append(RemoveFirst(ls, Handler(old)), Handler(new))

\* State after the first render and its effects (line 30-36, 39-56, 90-101,
\* 104-129): socket connected, one listener, the mount request in flight and
\* the interval armed unless the status is terminal.
Init ==
    /\ mounted = TRUE
    /\ currentPosition = null
    /\ delivery \in Deliveries
    /\ connected = TRUE
    /\ listeners = <<Handler(delivery)>>
    /\ emitted = <<>>
    /\ timers = IF IntervalWanted(delivery)
                THEN {[id |-> 1, closure |-> Closure(null, delivery)]}
                ELSE {}
    /\ fetchCurrentPositionIntervalId = IF IntervalWanted(delivery) THEN 1 ELSE 0
    /\ intervalCleanup = IntervalWanted(delivery)
    /\ inflight = <<Closure(null, delivery)>>
    /\ received = null
    /\ lastSample = null
    /\ overtaken = null
    /\ input1 = null
    /\ input2 = null
    /\ different = null

RemoveAt(s, i) == SubSeq(s, 1, i - 1) \o SubSeq(s, i + 1, Len(s))

\* History of the run of equal samples handled since the last delivery_updated:
\* its value, whether one of them emitted, and whether the latest one emitted
\* after an earlier one of the run had.
SampleHandled(location, emits) ==
    LET same == lastSample # null /\ lastSample.location = location
        before == same /\ lastSample.emitted
    IN  [location |-> location, emitted |-> emits \/ before,
         again |-> emits /\ before]

\* inflight is in request order, so the requests issued before the
\* latest-issued request handled so far are its first OlderPending entries.
OlderPending == IF overtaken = null THEN 0 ELSE overtaken.older

Overtaking(sample, older) ==
    IF older = 0 THEN null ELSE [sample |-> sample, older |-> older]

OvertakenAfterResolved(i, location) ==
    IF i > OlderPending
    THEN Overtaking(location, i - 1)
    ELSE Overtaking(overtaken.sample, overtaken.older - 1)

OvertakenAfterFailed(i) ==
    IF i > OlderPending
    THEN overtaken
    ELSE Overtaking(overtaken.sample, overtaken.older - 1)

\* line 109-120: an armed interval fires and requests the position; the
\* callback is built from the handler of the render that armed the interval.
TimerTick(t) ==
    /\ UNCHANGED detector
    /\ t \in timers
    /\ Len(inflight) < MaxInflight
    /\ inflight' = Append(inflight, t.closure)
    /\ received' = null
    /\ emitted' = <<>>
    /\ UNCHANGED <<mounted, currentPosition, delivery, connected, listeners,
                   timers, fetchCurrentPositionIntervalId, intervalCleanup,
                   lastSample, overtaken>>

\* Variant of SampleResolved that also writes the sample into the delivery.
SampleResolvedWritesDelivery(i, location) ==
    /\ UNCHANGED detector
    /\ i \in 1..Len(inflight)
    /\ LET c == inflight[i]
           set == mounted /\ SetsCurrentPosition(c, location)
           emits == EmitsLocationChanged(c, location)
       IN  /\ inflight' = RemoveAt(inflight, i)
           /\ received' = location
           /\ currentPosition' = IF set THEN location ELSE currentPosition
           /\ emitted' = IF emits
                         THEN <<LocationChangedEvent(c, location)>>
                         ELSE <<>>
           /\ lastSample' = SampleHandled(location, emits)
           /\ overtaken' = OvertakenAfterResolved(i, location)
           /\ delivery' = IF emits
                          THEN [delivery EXCEPT !.location = location]
                          ELSE delivery
           /\ IF set
              THEN RunIntervalEffect(location, delivery)
              ELSE UNCHANGED <<timers, fetchCurrentPositionIntervalId,
                               intervalCleanup>>
    /\ UNCHANGED <<mounted, connected, listeners>>

\* line 92-99 / 111-118 then 64-87: the provider delivers a position to the
\* callback of request i.  setCurrentPosition on an unmounted component is
\* dropped by React; a state change re-renders and re-runs the interval effect.
SampleResolved(i, location) ==
    /\ UNCHANGED detector
    /\ i \in 1..Len(inflight)
    /\ LET c == inflight[i]
           set == mounted /\ SetsCurrentPosition(c, location)
           emits == EmitsLocationChanged(c, location)
       IN  /\ inflight' = RemoveAt(inflight, i)
           /\ received' = location
           /\ currentPosition' = IF set THEN location ELSE currentPosition
           /\ emitted' = IF emits
                         THEN <<LocationChangedEvent(c, location)>>
                         ELSE <<>>
           /\ lastSample' = SampleHandled(location, emits)
           /\ overtaken' = OvertakenAfterResolved(i, location)
           /\ IF set
              THEN RunIntervalEffect(location, delivery)
              ELSE UNCHANGED <<timers, fetchCurrentPositionIntervalId,
                               intervalCleanup>>
    /\ UNCHANGED <<mounted, delivery, connected, listeners>>

\* Variant of SampleFailed that issues the request again.
SampleFailedRetries(i) ==
    /\ UNCHANGED detector
    /\ i \in 1..Len(inflight)
    /\ inflight' = Append(RemoveAt(inflight, i), inflight[i])
    /\ received' = null
    /\ emitted' = <<>>
    /\ overtaken' = OvertakenAfterFailed(i)
    /\ UNCHANGED <<mounted, currentPosition, delivery, connected, listeners,
                   timers, fetchCurrentPositionIntervalId, intervalCleanup,
                   lastSample>>

\* line 92 / 111: getCurrentPosition is given no error callback, a failed
\* request ends without calling anything.
SampleFailed(i) ==
    /\ UNCHANGED detector
    /\ i \in 1..Len(inflight)
    /\ inflight' = RemoveAt(inflight, i)
    /\ received' = null
    /\ emitted' = <<>>
    /\ overtaken' = OvertakenAfterFailed(i)
    /\ UNCHANGED <<mounted, currentPosition, delivery, connected, listeners,
                   timers, fetchCurrentPositionIntervalId, intervalCleanup,
                   lastSample>>

\* line 40-49: the socket delivers delivery_updated to every registered
\* handler; a handler whose captured delivery has the id of the payload calls
\* updateDelivery, which re-renders and re-runs both effects.
OnDeliveryUpdatedEvent(value) ==
    /\ UNCHANGED detector
    /\ connected
    /\ listeners # <<>>
    /\ received' = value
    /\ emitted' = <<>>
    /\ lastSample' = null
    /\ LET accepted == \E k \in 1..Len(listeners) :
                           IdMatches(value, listeners[k])
           new == UpdateDelivery(delivery, value)
       IN  IF accepted
           THEN /\ delivery' = new
                /\ listeners' = ReRegistered(listeners, delivery, new)
                /\ RunIntervalEffect(currentPosition, new)
           ELSE UNCHANGED <<delivery, listeners, timers,
                            fetchCurrentPositionIntervalId, intervalCleanup>>
    /\ UNCHANGED <<mounted, currentPosition, connected, inflight, overtaken>>

\* Variant of InTransitDisabled testing the status of the neighbouring button.
InTransitDisabledUnlessOpen(d) == d.status # "open"

\* line 232, 239, 246, 253: the disabled attribute of the four buttons
PickedUpDisabled(d) == d.status # "open"
InTransitDisabled(d) == d.status # "picked-up"
DeliveredDisabled(d) == d.status # "in-transit"
FailedDisabled(d) == d.status # "in-transit"

\* Variant of Press that also applies the status to the local delivery.
PressOptimistic(disabled, status) ==
    /\ UNCHANGED detector
    /\ mounted
    /\ ~disabled
    /\ received' = null
    /\ emitted' = <<[event |-> "status_changed", delivery_id |-> delivery._id,
                     status |-> status]>>
    /\ delivery' = [delivery EXCEPT !.status = status]
    /\ UNCHANGED <<mounted, currentPosition, connected, listeners,
                   timers, fetchCurrentPositionIntervalId, intervalCleanup,
                   inflight, lastSample, overtaken>>

\* A click on a button that is not disabled runs its onClick handler, which
\* emits status_changed and nothing else (line 131-161).
Press(disabled, status) ==
    /\ UNCHANGED detector
    /\ mounted
    /\ ~disabled
    /\ received' = null
    /\ emitted' = <<StatusChangedEvent(delivery, status)>>
    /\ UNCHANGED <<mounted, currentPosition, delivery, connected, listeners,
                   timers, fetchCurrentPositionIntervalId, intervalCleanup,
                   inflight, lastSample, overtaken>>

\* line 131-137
onPickedUp == Press(PickedUpDisabled(delivery), "picked-up")
\* line 139-145
onInTransit == Press(InTransitDisabled(delivery), "in-transit")
\* line 147-153
onDelivered == Press(DeliveredDisabled(delivery), "delivered")
\* line 155-161
onFailed == Press(FailedDisabled(delivery), "failed")

\* Variant of Unmount whose cleanup does not disconnect the socket.
UnmountLeavesConnected ==
    /\ UNCHANGED detector
    /\ mounted
    /\ mounted' = FALSE
    /\ listeners' = RemoveFirst(listeners, Handler(delivery))
    /\ timers' = ClearedTimers(timers, fetchCurrentPositionIntervalId,
                               intervalCleanup)
    /\ intervalCleanup' = FALSE
    /\ received' = null
    /\ emitted' = <<>>
    /\ UNCHANGED <<connected, currentPosition, delivery,
                   fetchCurrentPositionIntervalId, inflight, lastSample,
                   overtaken>>

\* The component unmounts: the cleanups of line 33-35, 53-55 and 123-127 run.
Unmount ==
    /\ UNCHANGED detector
    /\ mounted
    /\ mounted' = FALSE
    /\ connected' = FALSE
    /\ listeners' = RemoveFirst(listeners, Handler(delivery))
    /\ timers' = ClearedTimers(timers, fetchCurrentPositionIntervalId,
                               intervalCleanup)
    /\ intervalCleanup' = FALSE
    /\ received' = null
    /\ emitted' = <<>>
    /\ UNCHANGED <<currentPosition, delivery, fetchCurrentPositionIntervalId,
                   inflight, lastSample, overtaken>>

Next ==
    \/ \E t \in timers : TimerTick(t)
    \/ \E i \in 1..Len(inflight), location \in Positions :
           SampleResolved(i, location)
    \/ \E i \in 1..Len(inflight) : SampleFailed(i)
    \/ \E value \in Snapshots : OnDeliveryUpdatedEvent(value)
    \/ onPickedUp
    \/ onInTransit
    \/ onDelivered
    \/ onFailed
    \/ Unmount

Spec == Init /\ [][Next]_vars

\* Scheduling of the browser: an interval that stays armed fires (line
\* 109-120, every 20 s), and the location provider answers every request.
\* Clearing an interval and arming another one (line 109, 125) starts a new
\* interval with a new period, which owes nothing to the cleared one.
TimerRecords ==
    [id : 1..2,
     closure : [currentPosition : Locations, location : Locations,
                _id : {TrackedId}]]

ProviderAnswers ==
    \E i \in 1..Len(inflight) :
        \/ SampleFailed(i)
        \/ \E location \in Positions : SampleResolved(i, location)

FairSpec ==
    /\ Spec
    /\ \A t \in TimerRecords : WF_vars(TimerTick(t))
    /\ WF_vars(ProviderAnswers)

----------------------------------------------------------------------------
\* The change detector on its own: areLocationDifferent (line 58-62) applied
\* to every pair of a coordinate or null.

Coordinates == {[lat |-> a, lng |-> b] : a, b \in 1..MaxCoordinate}

DetectorInit ==
    /\ input1 \in Coordinates \cup {null}
    /\ input2 \in Coordinates \cup {null}
    /\ different = null
    /\ mounted = FALSE
    /\ currentPosition = null
    /\ delivery = [_id |-> TrackedId, location |-> null, status |-> "open"]
    /\ connected = FALSE
    /\ listeners = <<>>
    /\ emitted = <<>>
    /\ timers = {}
    /\ fetchCurrentPositionIntervalId = 0
    /\ intervalCleanup = FALSE
    /\ inflight = <<>>
    /\ received = null
    /\ lastSample = null
    /\ overtaken = null

Compare ==
    /\ different = null
    /\ different' = [result |-> areLocationDifferent(input1, input2)]
    /\ UNCHANGED <<input1, input2, mounted, currentPosition, delivery,
                   connected, listeners, emitted, timers,
                   fetchCurrentPositionIntervalId, intervalCleanup, inflight,
                   received, lastSample, overtaken>>

DetectorNext == Compare

DetectorSpec == DetectorInit /\ [][DetectorNext]_vars

----------------------------------------------------------------------------
\* Vocabulary of the properties.

Terminal(d) == d.status \in {"delivered", "failed"}

IsLocationChanged(e) == e.event = "location_changed"
IsStatusChanged(e) == e.event = "status_changed"

EmitsNoLocationChanged(es) == \A k \in 1..Len(es) : ~IsLocationChanged(es[k])

\* C1: whenever a sample is processed that equals the delivery's stored
\* location at that moment, no location_changed event is emitted, and if the
\* sample differs from currentPosition, currentPosition becomes the sample.
C1_StoredLocationSampleSilent ==
    [][\A i \in 1..Len(inflight), l \in Positions :
          (mounted /\ SampleResolved(i, l) /\ l = delivery.location) =>
              /\ EmitsNoLocationChanged(emitted')
              /\ (l # currentPosition => currentPosition' = l)]_vars

C3_AbsentStoredLocationEmits ==
    [][\A i \in 1..Len(inflight), l \in Positions :
          (/\ mounted
           /\ SampleResolved(i, l)
           /\ delivery.location = null
           /\ ~Terminal(delivery)) =>
              /\ emitted' = <<[event |-> "location_changed",
                               delivery_id |-> delivery._id,
                               location |-> l]>>
              /\ currentPosition' = l]_vars

\* C4: while the local status is delivered or failed, no step of the session
\* emits location_changed, whichever sample it processes.
C4_TerminalStatusSilencesSamples ==
    [][(mounted /\ Terminal(delivery) /\ Terminal(delivery')) =>
           EmitsNoLocationChanged(emitted')]_vars

\* C5: a delivery_updated event whose _id differs from the held delivery's id
\* leaves the delivery, currentPosition, the timer and the listeners as they
\* were and emits nothing.
C5_ForeignUpdateIgnored ==
    [][\A v \in Snapshots :
          (v._id # delivery._id /\ OnDeliveryUpdatedEvent(v)) =>
              /\ UNCHANGED <<delivery, currentPosition, timers,
                             fetchCurrentPositionIntervalId, intervalCleanup,
                             listeners, inflight, mounted, connected>>
              /\ emitted' = <<>>]_vars

\* The last step handled a delivery_updated event of another delivery.
C5_ForeignUpdateReceived ==
    mounted /\ received \in ForeignSnapshots

\* C6: a delivery_updated event whose _id equals the held delivery's id
\* replaces the delivery's location and status with the snapshot's, whatever
\* the current and the snapshot's status.
C6_MatchingUpdateOverwrites ==
    [][\A v \in Snapshots :
          (v._id = delivery._id /\ OnDeliveryUpdatedEvent(v)) =>
              /\ delivery'.location = v.location
              /\ delivery'.status = v.status
              /\ delivery'._id = delivery._id]_vars

\* The last step accepted a snapshot with status open, which no legal
\* transition produces.
C6_IllegalUpdateAccepted ==
    /\ mounted
    /\ received \in Deliveries
    /\ received.status = "open"
    /\ delivery = received

\* C7: each of the four triggers emits exactly one status_changed event with
\* the held delivery's id and the trigger's target status and leaves the
\* delivery unchanged; the local status changes only in a step that receives a
\* delivery_updated event with matching id.
StatusChanged(status) ==
    [event |-> "status_changed", delivery_id |-> delivery._id,
     status |-> status]

C7_TriggersOnlyEmitIntent ==
    [][/\ onPickedUp => (emitted' = <<StatusChanged("picked-up")>>
                         /\ delivery' = delivery)
       /\ onInTransit => (emitted' = <<StatusChanged("in-transit")>>
                          /\ delivery' = delivery)
       /\ onDelivered => (emitted' = <<StatusChanged("delivered")>>
                          /\ delivery' = delivery)
       /\ onFailed => (emitted' = <<StatusChanged("failed")>>
                       /\ delivery' = delivery)
       /\ delivery'.status # delivery.status =>
              \E v \in Snapshots :
                  v._id = delivery._id /\ OnDeliveryUpdatedEvent(v)]_vars

\* The last step was a trigger: it emitted status_changed and the local
\* status is still the one the trigger requires.
C7_TriggerPressed ==
    /\ emitted = <<StatusChanged("delivered")>>
    /\ delivery.status = "in-transit"

\* C8: the enabled controls mirror the state machine (picked up iff open, in
\* transit iff picked-up, delivered and failed iff in-transit, none when
\* terminal), and every status_changed event emitted requests a legal
\* transition from the local status at the time of the press.
LegalTransitions ==
    {<<"open", "picked-up">>, <<"picked-up", "in-transit">>,
     <<"in-transit", "delivered">>, <<"in-transit", "failed">>}

ControlsMirrorStatus ==
    /\ ~PickedUpDisabled(delivery) <=> delivery.status = "open"
    /\ ~InTransitDisabled(delivery) <=> delivery.status = "picked-up"
    /\ ~DeliveredDisabled(delivery) <=> delivery.status = "in-transit"
    /\ ~FailedDisabled(delivery) <=> delivery.status = "in-transit"
    /\ Terminal(delivery) =>
           /\ PickedUpDisabled(delivery)
           /\ InTransitDisabled(delivery)
           /\ DeliveredDisabled(delivery)
           /\ FailedDisabled(delivery)

C8_ControlsMirrorStateMachine ==
    /\ [](mounted => ControlsMirrorStatus)
    /\ [][\A k \in 1..Len(emitted') :
              IsStatusChanged(emitted'[k]) =>
                  <<delivery.status, emitted'[k].status>> \in LegalTransitions]_vars

\* The last step pressed 'mark in transit' from picked-up.
C8_LegalRequestEmitted ==
    /\ emitted = <<StatusChanged("in-transit")>>
    /\ delivery.status = "picked-up"

\* C9: a sample callback that runs after the component has unmounted changes
\* neither currentPosition nor the delivery and emits nothing.
C9_LateSampleDiscarded ==
    [][\A i \in 1..Len(inflight), l \in Positions :
          (~mounted /\ SampleResolved(i, l)) =>
              /\ emitted' = <<>>
              /\ currentPosition' = currentPosition
              /\ delivery' = delivery]_vars

\* C10 (as stated): once the session has ended or the local status is
\* delivered or failed, the timer is disarmed and no sample is requested, in
\* that step and ever after.
Stopped == ~mounted \/ Terminal(delivery)

C11_NoRegressionToOlderSample ==
    [][\A i \in 1..Len(inflight), l \in Positions :
          (mounted /\ SampleResolved(i, l)) =>
              /\ (/\ overtaken # null
                  /\ i <= overtaken.older
                  /\ currentPosition = overtaken.sample) =>
                     currentPosition' = overtaken.sample
              /\ (i > OlderPending /\ l # currentPosition) =>
                     currentPosition' = l]_vars

\* C12: a failed sample request changes neither currentPosition nor the
\* delivery, emits nothing, is not retried, and leaves the interval armed so
\* that later ticks request further samples.
C12_FailedSampleDropped ==
    [][\A i \in 1..Len(inflight) :
          SampleFailed(i) =>
              /\ UNCHANGED <<currentPosition, delivery, timers,
                             fetchCurrentPositionIntervalId, intervalCleanup,
                             listeners, mounted, connected>>
              /\ emitted' = <<>>
              /\ Len(inflight') = Len(inflight) - 1
              /\ \A t \in timers :
                     t \in timers' /\ Len(inflight') < MaxInflight]_vars

\* The only request in flight has just failed (the last step handed nothing to
\* a callback and emitted nothing, and it was neither a tick nor an unmount)
\* and the interval is still armed.
C12_SampleFailedTimerArmed ==
    /\ mounted
    /\ inflight = <<>>
    /\ received = null
    /\ emitted = <<>>
    /\ timers # {}

\* C13: areLocationDifferent is symmetric, is false for a present coordinate
\* and itself, is true for null and any present coordinate, and for two
\* present coordinates is true iff their lat differ or their lng differ.
C13_ChangeDetectorLaws ==
    different # null =>
        /\ different.result = areLocationDifferent(input2, input1)
        /\ (input1 # null /\ input2 = input1) => ~different.result
        /\ (input1 = null /\ input2 # null) => different.result
        /\ (input1 # null /\ input2 # null) =>
               (different.result <=> (\/ input1.lat # input2.lat
                                      \/ input1.lng # input2.lng))

\* The detector has compared two present coordinates that differ in lng only.
C13_ComparedLngOnly ==
    /\ different # null
    /\ input1 # null
    /\ input2 # null
    /\ input1.lat = input2.lat
    /\ input1.lng # input2.lng
    /\ different.result

\* C14: only a delivery_updated event with matching id writes the delivery:
\* a processed sample, whether or not it sets currentPosition or emits, and a
\* timer tick leave its status and location unchanged.
C14_OnlyInboundWritesDelivery ==
    [][/\ \A i \in 1..Len(inflight), l \in Positions :
              SampleResolved(i, l) => delivery' = delivery
       /\ \A t \in timers : TimerTick(t) => delivery' = delivery
       /\ delivery' # delivery =>
              \E v \in Snapshots :
                  /\ v._id = delivery._id
                  /\ OnDeliveryUpdatedEvent(v)
                  /\ delivery' = v]_vars

\* The last step processed a sample that set currentPosition and emitted
\* location_changed, and the delivery's location is still another one.
C14_SampleLeftDeliveryAlone ==
    /\ mounted
    /\ received \in Positions
    /\ currentPosition = received
    /\ emitted # <<>>
    /\ delivery.location # received
    /\ delivery.location # null

\* C15: the socket is connected exactly while the component is mounted: it is
\* connected from the start of the session, the only step that changes the
\* connection is the unmount, which disconnects it, and no delivery update,
\* position change or listener re-registration touches it.
C15_ConnectedWhileMounted ==
    /\ [](connected <=> mounted)
    /\ [][connected' # connected => (Unmount /\ ~connected')]_vars

\* Delivery updates and position changes have happened and the socket is
\* still connected.
C15_StillConnectedAfterEvents ==
    /\ mounted
    /\ connected
    /\ received = delivery
    /\ currentPosition # null
    /\ lastSample = null

\* C16: if the component stays mounted with a status that is neither
\* delivered nor failed, the interval requests a sample again and again,
\* however often delivery_updated events or position changes re-arm it.
Active == mounted /\ ~Terminal(delivery)

C16_TimerKeepsSampling ==
    \/ []<>(~Active)
    \/ []<><<\E t \in timers : TimerTick(t)>>_vars

\* C17: at most one interval is armed, it is the one whose id the ref holds,
\* and one is armed iff the component is mounted and the status is neither
\* delivered nor failed.
C17_OneTimerIffActive ==
    /\ Cardinality(timers) <= 1
    /\ \A t \in timers : t.id = fetchCurrentPositionIntervalId
    /\ timers # {} <=> (mounted /\ ~Terminal(delivery))

\* The interval has been re-armed after a position change and after a
\* delivery change, and exactly one is armed.
C17_RearmedTwice ==
    /\ mounted
    /\ currentPosition # null
    /\ received = delivery
    /\ Cardinality(timers) = 1

\* C18: while the component is mounted exactly one delivery_updated handler
\* is registered and it compares with the id of the delivery currently held;
\* after the unmount none is registered.
C18_OneListenerWhileMounted ==
    /\ mounted => listeners = <<[_id |-> delivery._id]>>
    /\ ~mounted => listeners = <<>>

\* A delivery change has just re-registered the handler.
C18_ListenerReRegistered ==
    /\ mounted
    /\ received = delivery
    /\ received.location # null
    /\ Len(listeners) = 1

====
